---- MODULE Spec2Model ----
(***************************************************************************)
(* A model of yannopt's function algebra (yannopt/functions.py) and of its *)
(* step-size policies (yannopt/learning_rates.py).                         *)
(*                                                                         *)
(* Numbers.  The code computes in floating point; the model computes in    *)
(* exact arithmetic on integers.  Where the code produces a non-integer    *)
(* (the 0.5 of Quadratic.eval, the powers of b of the line search, the     *)
(* default smoothing 0.1) the model keeps a numerator over a denominator   *)
(* that the comment of the definition names.                               *)
(*                                                                         *)
(* Arrays.  A numpy array is a record [shape, data]: shape is the tuple of *)
(* its dimensions, data its entries in row-major order.                    *)
(***************************************************************************)
EXTENDS Integers, Sequences, FiniteSets, TLC

VARIABLES
  pc,         \* position of the one call a specification models
  f,          \* quadratic_approx / hinge loss: the Function instance
  x,          \* the point the operation is called at
  result,     \* what the call returned (an array, a model, a step)
  raised,     \* the exception that left the call, "none" when it returned
  self,       \* the step-size policy instance (its fields)
  args,       \* the other arguments of the call
  t,          \* BacktrackingLineSearch.learning_rate: the trial step
  shrinks,    \* number of executions of "t *= self.b" in the running call
  locals,     \* score and gradient of the running learning_rate call
  history     \* AdaptiveGradient: directions and steps of the calls so far

vars == <<pc, f, x, result, raised, self, args, t, shrinks, locals, history>>

-----------------------------------------------------------------------------
(* Bounds of the model *)

\* entries of the points, vectors and matrices drawn as inputs
MaxEntry == 1

\* dimensions of the domains the Functions are applied to
Dims == {1, 2}

-----------------------------------------------------------------------------
(* numpy arrays *)

RECURSIVE SumSeq(_)
SumSeq(s) == IF Len(s) = 0 THEN 0 ELSE s[1] + SumSeq(Tail(s))

Scalar(v) == [shape |-> <<>>, data |-> <<v>>]
Vec(s) == [shape |-> <<Len(s)>>, data |-> s]
Mat(m, n, d) == [shape |-> <<m, n>>, data |-> d]

NDim(a) == Len(a.shape)
At(a, i, j) == a.data[(i - 1) * a.shape[2] + j]

\* np.zeros(n), np.zeros((n, n)), np.eye(n)
Zeros1(n) == Vec([i \in 1..n |-> 0])
Zeros2(m, n) == Mat(m, n, [i \in 1..(m * n) |-> 0])

\* a.T : reverses the axes; a no-op below two dimensions
Transpose(a) ==
  IF NDim(a) < 2 THEN a
  ELSE Mat(a.shape[2], a.shape[1],
           [p \in 1..(a.shape[1] * a.shape[2]) |->
              At(a, ((p - 1) % a.shape[1]) + 1, ((p - 1) \div a.shape[1]) + 1)])

\* np.atleast_2d(a)
AtLeast2d(a) ==
  CASE NDim(a) = 0 -> Mat(1, 1, a.data)
    [] NDim(a) = 1 -> Mat(1, a.shape[1], a.data)
    [] OTHER -> a

\* a.dot(b) for the ranks the code uses
Dot(a, b) ==
  CASE NDim(a) = 1 /\ NDim(b) = 1 ->
         Scalar(SumSeq([i \in 1..a.shape[1] |-> a.data[i] * b.data[i]]))
    [] NDim(a) = 2 /\ NDim(b) = 1 ->
         Vec([i \in 1..a.shape[1] |->
                SumSeq([j \in 1..a.shape[2] |-> At(a, i, j) * b.data[j]])])
    [] NDim(a) = 1 /\ NDim(b) = 2 ->
         Vec([j \in 1..b.shape[2] |->
                SumSeq([i \in 1..b.shape[1] |-> a.data[i] * At(b, i, j)])])
    [] NDim(a) = 2 /\ NDim(b) = 2 ->
         Mat(a.shape[1], b.shape[2],
             [p \in 1..(a.shape[1] * b.shape[2]) |->
                SumSeq([l \in 1..a.shape[2] |->
                          At(a, ((p - 1) \div b.shape[2]) + 1, l)
                          * At(b, l, ((p - 1) % b.shape[2]) + 1)])])

\* a + b with numpy's broadcasting of a 0-d operand
Add(a, b) ==
  CASE NDim(a) = 0 -> [shape |-> b.shape,
                       data |-> [i \in 1..Len(b.data) |-> a.data[1] + b.data[i]]]
    [] NDim(b) = 0 -> [shape |-> a.shape,
                       data |-> [i \in 1..Len(a.data) |-> a.data[i] + b.data[1]]]
    [] OTHER -> [shape |-> a.shape,
                 data |-> [i \in 1..Len(a.data) |-> a.data[i] + b.data[i]]]

\* k * a for a number k
Scale(k, a) == [shape |-> a.shape, data |-> [i \in 1..Len(a.data) |-> k * a.data[i]]]

Abs(v) == IF v < 0 THEN -v ELSE v
Sign(v) == IF v < 0 THEN -1 ELSE IF v > 0 THEN 1 ELSE 0
Max(u, v) == IF u < v THEN v ELSE u

\* the arrays drawn as inputs
Entries == -MaxEntry..MaxEntry
Vectors(n) == {Vec(s) : s \in [1..n -> Entries]}
Matrices(m, n) == {Mat(m, n, d) : d \in [1..(m * n) -> 0..MaxEntry]}
SymMatrices(n) == {M \in Matrices(n, n) : Transpose(M) = M}
Ones2(m, n) == Mat(m, n, [i \in 1..(m * n) |-> 1])

-----------------------------------------------------------------------------
(* yannopt/functions.py : the Function variants                             *)
(*                                                                         *)
(* A Function instance is a record whose kind names its class and whose    *)
(* other fields are the attributes __init__ stores.  Values of eval are    *)
(* numerators over the denominator 2 (Quadratic.eval multiplies by 0.5);   *)
(* so are the constants c of Quadratic and Constant, which eval adds to    *)
(* a value.  Points, gradients and Hessians are integers.                  *)

\* Quadratic.__init__
Quadratic(A, b, c) ==
  [kind |-> "Quadratic", A |-> AtLeast2d(A),
   b |-> IF NDim(b) = 0 THEN Vec(b.data) ELSE b,
   c |-> c]

\* Affine.__init__
Affine(A, b) == [kind |-> "Affine", A |-> A, b |-> b]

\* Constant.__init__
Constant(c) == [kind |-> "Constant", c |-> c]

\* Separable.__init__
Separable(functions) == [kind |-> "Separable", functions |-> functions]

\* Composition.__init__ : a single Function is wrapped into a list
Composition(outer_functions, inner_functions) ==
  [kind |-> "Composition",
   outer_functions |-> IF DOMAIN outer_functions = {"kind", "A", "b"}
                       THEN <<outer_functions>> ELSE outer_functions,
   inner_functions |-> IF DOMAIN inner_functions = {"kind", "A", "b"}
                       THEN <<inner_functions>> ELSE inner_functions]

L1Norm == [kind |-> "L1Norm"]

\* HingeLoss.__init__
HingeLoss(X, y) == [kind |-> "HingeLoss", X |-> AtLeast2d(X), y |-> y]

\* Affine.eval : A.dot(x) + b, in integers
AffineEval(g, p) == Add(Dot(g.A, p), g.b)

\* Affine.gradient
AffineGradient(g, p) == Transpose(g.A)

\* np.hstack / np.vstack over the arrays of a list
RECURSIVE ConcatData(_)
ConcatData(as) == IF Len(as) = 0 THEN <<>> ELSE as[1].data \o ConcatData(Tail(as))
HStack(as) == Vec(ConcatData(as))
VStack(as) ==
  Mat(SumSeq([i \in 1..Len(as) |-> as[i].shape[1]]), as[1].shape[2], ConcatData(as))

\* Composition.eval, for stacks of Affine functions, in integers
CompositionEval(h, p) ==
  LET y == HStack([i \in 1..Len(h.inner_functions) |->
                     AffineEval(h.inner_functions[i], p)])
      z == HStack([i \in 1..Len(h.outer_functions) |->
                     AffineEval(h.outer_functions[i], y)])
  IN z

\* utils.drop_dimensions : removes the dimensions of size one
drop_dimensions(a) ==
  [shape |-> SelectSeq(a.shape, LAMBDA d : d # 1), data |-> a.data]

\* Composition.gradient without the transposition of the product
CompositionGradientUntransposed(h, p) ==
  LET G == VStack([i \in 1..Len(h.outer_functions) |->
                     AtLeast2d(Transpose(AffineGradient(h.outer_functions[i], p)))])
      H == VStack([i \in 1..Len(h.inner_functions) |->
                     AtLeast2d(Transpose(AffineGradient(h.inner_functions[i], p)))])
  IN drop_dimensions(Dot(G, H))

\* Composition.gradient, for stacks of Affine functions
CompositionGradient(h, p) ==
  LET y == HStack([i \in 1..Len(h.inner_functions) |->
                     AffineEval(h.inner_functions[i], p)])
      G == VStack([i \in 1..Len(h.outer_functions) |->
                     AtLeast2d(Transpose(AffineGradient(h.outer_functions[i], y)))])
      H == VStack([i \in 1..Len(h.inner_functions) |->
                     AtLeast2d(Transpose(AffineGradient(h.inner_functions[i], p)))])
  IN drop_dimensions(Transpose(Dot(G, H)))

\* Quadratic.eval : 0.5 * x.dot(A).dot(x) + b.dot(x) + c, numerator over 2
QuadraticEval(q, p) ==
  Add(Add(Dot(Dot(p, q.A), p), Scale(2, Dot(q.b, p))), q.c)

\* Quadratic.gradient
QuadraticGradient(q, p) == Add(Dot(q.A, p), q.b)

\* L1Norm.eval, numerator over 2
L1NormEval(p) == Scalar(2 * SumSeq([i \in 1..Len(p.data) |-> Abs(p.data[i])]))

\* L1Norm.gradient
L1NormGradient(p) == [shape |-> p.shape,
                      data |-> [i \in 1..Len(p.data) |-> Sign(p.data[i])]]

\* a prox that thresholds the positive part only
L1NormProxOneSided(p, eta) ==
  [shape |-> p.shape,
   data |-> [i \in 1..Len(p.data) |-> Max(p.data[i] - eta, 0) - Max(-p.data[i], 0)]]

\* L1Norm.prox : np.maximum(x - eta, 0) - np.maximum(-x - eta, 0)
L1NormProx(p, eta) ==
  [shape |-> p.shape,
   data |-> [i \in 1..Len(p.data) |->
               Max(p.data[i] - eta, 0) - Max(-p.data[i] - eta, 0)]]

\* Function.eval by class, numerator over 2
RECURSIVE Eval(_, _)
Eval(h, p) ==
  CASE h.kind = "Quadratic" -> QuadraticEval(h, p)
    [] h.kind = "Affine" -> Scale(2, AffineEval(h, p))
    [] h.kind = "Constant" -> h.c
    [] h.kind = "L1Norm" -> L1NormEval(p)
    [] h.kind = "Composition" -> Scale(2, CompositionEval(h, p))
    [] h.kind = "Separable" ->
         \* np.sum(evals) adds every entry of every evaluation
         Scalar(SumSeq([i \in 1..Len(h.functions) |->
                          SumSeq(Eval(h.functions[i], p).data)]))

\* base.Function.__call__ : f(x) is f.eval(x)
Call(h, p) == Eval(h, p)

\* sum(arrays) of Python: 0 + a1 + a2 + ...
RECURSIVE PySum(_)
PySum(as) == IF Len(as) = 0 THEN Scalar(0)
             ELSE Add(PySum(SubSeq(as, 1, Len(as) - 1)), as[Len(as)])

\* Function.gradient by class
RECURSIVE Gradient(_, _)
Gradient(h, p) ==
  CASE h.kind = "Quadratic" -> QuadraticGradient(h, p)
    [] h.kind = "Affine" -> AffineGradient(h, p)
    [] h.kind = "Constant" -> Zeros1(p.shape[1])
    [] h.kind = "L1Norm" -> L1NormGradient(p)
    [] h.kind = "Composition" -> CompositionGradient(h, p)
    [] h.kind = "Separable" ->
         PySum([i \in 1..Len(h.functions) |-> Gradient(h.functions[i], p)])

\* whether Function.hessian raises NotImplementedError
RECURSIVE HessianRaises(_, _)
HessianRaises(h, p) ==
  CASE h.kind = "Composition" -> TRUE
    [] h.kind = "L1Norm" -> TRUE
    [] h.kind = "Separable" ->
         \E i \in 1..Len(h.functions) : HessianRaises(h.functions[i], p)
    [] OTHER -> FALSE

\* Function.hessian by class, where it does not raise
RECURSIVE Hessian(_, _)
Hessian(h, p) ==
  CASE h.kind = "Quadratic" -> h.A
    [] h.kind = "Affine" -> Zeros2(Len(p.data), Len(p.data))
    [] h.kind = "Constant" -> Zeros2(p.shape[1], p.shape[1])
    [] h.kind = "Separable" ->
         PySum([i \in 1..Len(h.functions) |-> Hessian(h.functions[i], p)])

\* quadratic_approx(f, x) : the exception that leaves it, and the model
NoModel == [kind |-> "none"]

\* a quadratic_approx that catches the failure of f.hessian and falls back
\* to a zero Hessian
quadratic_approxCatching(h, p) ==
  [raised |-> "none",
   model |-> Quadratic(IF HessianRaises(h, p) THEN Zeros2(Len(p.data), Len(p.data))
                       ELSE Hessian(h, p),
                       Gradient(h, p), Call(h, p))]

quadratic_approx(h, p) ==
  LET c == Call(h, p)
      g == Gradient(h, p)
  IN IF HessianRaises(h, p)
     THEN [raised |-> "NotImplementedError", model |-> NoModel]
     ELSE [raised |-> "none", model |-> Quadratic(Hessian(h, p), g, c)]

-----------------------------------------------------------------------------
(* Specification SpecApprox : one call quadratic_approx(f, x)               *)

Unused == "unused"

\* the Functions of domain dimension n that quadratic_approx is called on
ApproxFunctions(n) ==
  {Quadratic(A, b, c) : A \in SymMatrices(n), b \in Vectors(n),
                        c \in {Scalar(0), Scalar(1)}}
  \cup {Constant(Scalar(c)) : c \in Entries}
  \cup {L1Norm}
  \cup {Composition(Affine(Ones2(1, n), Zeros1(1)), Affine(B, Zeros1(n))) :
          B \in Matrices(n, n)}
  \cup {Separable(<<Quadratic(A, Zeros1(n), Scalar(0)), h>>) :
          A \in SymMatrices(n),
          h \in {Constant(Scalar(1)), L1Norm,
                 Quadratic(Zeros2(n, n), Vec([i \in 1..n |-> 1]), Scalar(1))}}

InitApprox ==
  /\ pc = "start"
  /\ \E n \in Dims : f \in ApproxFunctions(n) /\ x \in Vectors(n)
  /\ result = NoModel
  /\ raised = "none"
  /\ self = Unused /\ args = Unused /\ t = Unused /\ shrinks = Unused
  /\ locals = Unused /\ history = Unused

QuadraticApprox ==
  /\ pc = "start"
  /\ LET r == quadratic_approx(f, x)
     IN /\ result' = r.model
        /\ raised' = r.raised
  /\ pc' = "done"
  /\ UNCHANGED <<f, x, self, args, t, shrinks, locals, history>>

NextApprox == QuadraticApprox

SpecApprox == InitApprox /\ [][NextApprox]_vars

\* C1: for every f with a value, gradient and Hessian and every expansion
\* point x0, the zero vector or not, the model m = quadratic_approx(f, x0)
\* has m.evaluate(x0) = f.evaluate(x0) and m.gradient(x0) = f.gradient(x0).
C1_ApproxMatchesAtExpansionPoint ==
  (pc = "done" /\ raised = "none") =>
     /\ Eval(result, x) = Eval(f, x)
     /\ Gradient(result, x) = Gradient(f, x)

\* C6: quadratic_approx(f, x) leaves with f's NotImplementedError and returns
\* no model whenever f.hessian(x) raises; the Hessian of every Composition
\* and of L1Norm raises at every x.
C6_ApproxPropagatesHessianFailure ==
  pc = "done" =>
     /\ HessianRaises(f, x) => (raised = "NotImplementedError" /\ result = NoModel)
     /\ f.kind \in {"Composition", "L1Norm"} =>
          (raised = "NotImplementedError" /\ result = NoModel)
     /\ raised = "none" => result.kind = "Quadratic"

C6_Witness ==
  /\ pc = "done"
  /\ f.kind = "Composition"
  /\ raised = "NotImplementedError"
  /\ x # Zeros1(Len(x.data))

-----------------------------------------------------------------------------
(* Specification SpecComposition : one call Composition(f, g).gradient(x)   *)
(* with f = Affine(A, a), A of shape m x k, and g = Affine(B, b), B of      *)
(* shape k x n.                                                             *)

\* the points of dimension n with all coordinates equal
DiagonalPoints(n) == {Vec([i \in 1..n |-> v]) : v \in Entries}

InitComposition ==
  /\ pc = "start"
  /\ \E m \in Dims, k \in Dims, n \in Dims :
       /\ \E A \in Matrices(m, k), B \in Matrices(k, n),
             b \in {Zeros1(k), Vec([i \in 1..k |-> 1])} :
            f = Composition(Affine(A, Zeros1(m)), Affine(B, b))
       /\ x \in DiagonalPoints(n)
  /\ result = Scalar(0)
  /\ raised = "none"
  /\ self = Unused /\ args = Unused /\ t = Unused /\ shrinks = Unused
  /\ locals = Unused /\ history = Unused

CallCompositionGradient ==
  /\ pc = "start"
  /\ result' = CompositionGradient(f, x)
  /\ pc' = "done"
  /\ UNCHANGED <<f, x, raised, self, args, t, shrinks, locals, history>>

NextComposition == CallCompositionGradient

SpecComposition == InitComposition /\ [][NextComposition]_vars

OuterA == f.outer_functions[1].A
InnerB == f.inner_functions[1].A

\* entry (i, j) of the matrix product A.dot(B), from the entries of A and B
ProductEntry(i, j) ==
  SumSeq([l \in 1..OuterA.shape[2] |-> At(OuterA, i, l) * At(InnerB, l, j)])

\* C2 as stated: the gradient of the composition of y -> A.y + a with
\* x -> B.x + b equals A.dot(B) for every x (here read up to dimensions of
\* size one: the same entries in the same row-major order).
C2_GradientIsProduct ==
  pc = "done" =>
     result.data = [p \in 1..(OuterA.shape[1] * InnerB.shape[2]) |->
                      ProductEntry(((p - 1) \div InnerB.shape[2]) + 1,
                                   ((p - 1) % InnerB.shape[2]) + 1)]

\* C2 as amended: the gradient is the transpose of A.dot(B): its entries, in
\* row-major order of an n x m array, are entry (j, i) = (A.dot(B))[i, j].
C2_GradientIsTransposedProduct ==
  pc = "done" =>
     /\ Len(result.data) = OuterA.shape[1] * InnerB.shape[2]
     /\ \A i \in 1..OuterA.shape[1], j \in 1..InnerB.shape[2] :
          result.data[(j - 1) * OuterA.shape[1] + i] = ProductEntry(i, j)

\* a product that is square and not symmetric
C2_Witness ==
  /\ pc = "done"
  /\ OuterA.shape = <<2, 2>> /\ InnerB.shape = <<2, 2>>
  /\ ProductEntry(1, 2) # ProductEntry(2, 1)
  /\ result.shape = <<2, 2>>

-----------------------------------------------------------------------------
(* yannopt/learning_rates.py : BacktrackingLineSearch                       *)
(*                                                                         *)
(* The hyperparameters a, b, t0 and the trial step t are fractions         *)
(* <<numerator, denominator>> with a positive denominator; t *= b          *)
(* multiplies numerators and denominators.  The objective is a Function    *)
(* of yannopt/functions.py, evaluated exactly at the fractional point      *)
(* x - t*direction.                                                        *)

\* Function.eval at the point p/D (p an integer array, D > 0), numerator
\* over 2*D*D; Eval(h, p) is the case D = 1
EvalAt(h, p, D) ==
  CASE h.kind = "Quadratic" ->
         (Dot(Dot(p, h.A), p).data[1] + 2 * D * Dot(h.b, p).data[1])
         + D * D * h.c.data[1]
    [] h.kind = "Constant" -> D * D * h.c.data[1]
    [] h.kind = "L1Norm" -> D * L1NormEval(p).data[1]

\* BacktrackingLineSearch.__init__
BacktrackingLineSearch(a, b, t0) == [a |-> a, b |-> b, t0 |-> t0]

\* objective(x - t*direction): numerator over 2 * t[2] * t[2]
new_score(tt, p, direction, objective) ==
  EvalAt(objective, Add(Scale(tt[2], p), Scale(-tt[1], direction)), tt[2])

\* self.a * gradient.dot(-direction): numerator over s.a[2]
differenceWithoutA(s, gradient, direction) ==
  s.a[2] * Dot(gradient, Scale(-1, direction)).data[1]

difference(s, gradient, direction) ==
  s.a[1] * Dot(gradient, Scale(-1, direction)).data[1]

\* new_score < score + difference, all three brought over 2 * t[2]^2 * a[2]
SufficientDecrease(s, tt, p, direction, objective, score, gradient) ==
  new_score(tt, p, direction, objective) * s.a[2]
    < tt[2] * tt[2] * (score * s.a[2] + 2 * difference(s, gradient, direction))

\* t*b < self.t0 : a floor test that gives up one trial early
BelowFloorEarly(s, tt) == tt[1] * s.b[1] * s.t0[2] < s.t0[1] * tt[2] * s.b[2]

\* self.t0 < t/b ... a floor test that gives up one trial late
BelowFloorLate(s, tt) == tt[1] * s.b[2] * s.t0[2] < s.t0[1] * tt[2] * s.b[1]

\* t < self.t0
BelowFloor(s, tt) == tt[1] * s.t0[2] < s.t0[1] * tt[2]

\* lines 26-28: t = 1.0, score and gradient are computed once
LSBegin ==
  /\ pc = "start"
  /\ t' = <<1, 1>>
  /\ shrinks' = 0
  /\ locals' = [score |-> Call(args.objective, x).data[1],
                gradient |-> Gradient(args.objective, x)]
  /\ pc' = "loop"
  /\ UNCHANGED <<f, x, result, raised, self, args, history>>

\* lines 30-33: the trial step passes the test and is returned
LSReturnAccepted ==
  /\ pc = "loop"
  /\ SufficientDecrease(self, t, x, args.direction, args.objective,
                        locals.score, locals.gradient)
  /\ result' = t
  /\ pc' = "done"
  /\ UNCHANGED <<f, x, raised, self, args, t, shrinks, locals, history>>

\* lines 34-36: the trial step fails the test and is below the floor
LSReturnFloor ==
  /\ pc = "loop"
  /\ ~SufficientDecrease(self, t, x, args.direction, args.objective,
                         locals.score, locals.gradient)
  /\ BelowFloor(self, t)
  /\ result' = t
  /\ pc' = "done"
  /\ UNCHANGED <<f, x, raised, self, args, t, shrinks, locals, history>>

\* lines 37-38: t *= self.b
LSShrink ==
  /\ pc = "loop"
  /\ ~SufficientDecrease(self, t, x, args.direction, args.objective,
                         locals.score, locals.gradient)
  /\ ~BelowFloor(self, t)
  /\ t' = <<t[1] * self.b[1], t[2] * self.b[2]>>
  /\ shrinks' = shrinks + 1
  /\ UNCHANGED <<pc, f, x, result, raised, self, args, locals, history>>

-----------------------------------------------------------------------------
(* Specification SpecLineSearch : one call of                               *)
(* BacktrackingLineSearch.learning_rate on a one-dimensional problem        *)

\* coordinates of the current point range over -MaxPoint..MaxPoint
MaxPoint == 2
\* coordinates of the direction range over -MaxDirection..MaxDirection
MaxDirection == 4
\* the trial steps 1, b, ..., b^MaxShrinks are those the properties speak of
MaxShrinks == 4

\* the hyperparameters: a, and b with floors t0 that b^k passes within
\* MaxShrinks - 1 steps
LineSearches ==
  {BacktrackingLineSearch(a, bt[1], bt[2]) :
     a \in {<<1, 10>>, <<1, 2>>},
     bt \in {<<<<9, 10>>, <<3, 4>>>>, <<<<9, 10>>, <<17, 20>>>>,
             <<<<9, 10>>, <<19, 20>>>>,
             <<<<1, 2>>, <<1, 8>>>>, <<<<1, 2>>, <<1, 3>>>>, <<<<1, 2>>, <<1, 1>>>>}}

\* the objectives: x^2, 0.5 x^2 - x + 0.5, |x|, and a constant
Objectives ==
  {Quadratic(Mat(1, 1, <<2>>), Vec(<<0>>), Scalar(0)),
   Quadratic(Mat(1, 1, <<1>>), Vec(<<-1>>), Scalar(1)),
   L1Norm,
   Constant(Scalar(1))}

InitLineSearch ==
  /\ pc = "start"
  /\ self \in LineSearches
  /\ x \in {Vec(<<v>>) : v \in -MaxPoint..MaxPoint}
  /\ \E d \in -MaxDirection..MaxDirection, o \in Objectives :
       args = [direction |-> Vec(<<d>>), objective |-> o]
  /\ t = <<1, 1>>
  /\ shrinks = 0
  /\ locals = [score |-> 0, gradient |-> Vec(<<0>>)]
  /\ result = <<0, 1>>
  /\ raised = "none"
  /\ f = Unused /\ history = Unused

NextLineSearch == LSBegin \/ LSReturnAccepted \/ LSReturnFloor \/ LSShrink

SpecLineSearch == InitLineSearch /\ [][NextLineSearch]_vars

\* the loop of learning_rate runs without interruption: a step that can be
\* taken is taken
FairLineSearch == SpecLineSearch /\ WF_vars(NextLineSearch)

(* The statements about the line search, from the hyperparameters and the  *)
(* objective alone.                                                        *)

RECURSIVE Pow(_, _)
Pow(q, k) == IF k = 0 THEN <<1, 1>>
             ELSE <<q[1] * Pow(q, k - 1)[1], q[2] * Pow(q, k - 1)[2]>>

Less(q, r) == q[1] * r[2] < r[1] * q[2]
Same(q, r) == q[1] * r[2] = r[1] * q[2]

\* the k-th trial step b^k
TrialStep(k) == Pow(self.b, k)

\* b^k has not dropped below t0
AboveFloor(k) == ~Less(TrialStep(k), self.t0)

\* objective(x - q*direction) < objective(x) + a*gradient(x).(-direction)
\* for a step q = <<N, D>>, at one-dimensional x and direction
Armijo(q) ==
  LET xv == x.data[1]
      dv == args.direction.data[1]
      moved == Vec(<<xv * q[2] - q[1] * dv>>)
      slope == -(Gradient(args.objective, x).data[1] * dv)
  IN EvalAt(args.objective, moved, q[2]) * self.a[2]
       < q[2] * q[2] * (Eval(args.objective, x).data[1] * self.a[2]
                        + 2 * self.a[1] * slope)

\* the smallest k with b^k < t0
FloorIndex ==
  CHOOSE k \in 0..MaxShrinks :
    /\ ~AboveFloor(k)
    /\ \A j \in 0..(k - 1) : AboveFloor(j)

SomeStepAccepted == \E k \in 0..MaxShrinks : AboveFloor(k) /\ Armijo(TrialStep(k))

FirstAccepted ==
  CHOOSE k \in 0..MaxShrinks :
    /\ AboveFloor(k) /\ Armijo(TrialStep(k))
    /\ \A j \in 0..(k - 1) : ~Armijo(TrialStep(j))

\* C3: for 0<b<1 and t0>0, when some trial step of 1, b, b^2, ... that has
\* not dropped below t0 satisfies the sufficient-decrease condition,
\* learning_rate returns the first such trial step: the returned t is in
\* (0, 1], satisfies the condition, and every earlier trial step violates it.
C3_ReturnsFirstAcceptedStep ==
  (pc = "done" /\ SomeStepAccepted) =>
     /\ Same(result, TrialStep(FirstAccepted))
     /\ Less(<<0, 1>>, result) /\ ~Less(<<1, 1>>, result)
     /\ Armijo(result)
     /\ \A j \in 0..MaxShrinks :
          Less(result, TrialStep(j)) => ~Armijo(TrialStep(j))

\* f(x) = x^2 at x = 2 with direction 4, a = 0.1, b = 0.9: the step 0.81
C3_Witness ==
  /\ pc = "done"
  /\ args.objective = Quadratic(Mat(1, 1, <<2>>), Vec(<<0>>), Scalar(0))
  /\ x = Vec(<<2>>) /\ args.direction = Vec(<<4>>)
  /\ self.a = <<1, 10>> /\ self.b = <<9, 10>>
  /\ Same(result, <<81, 100>>)
  /\ shrinks = 2

\* C4 as stated: when no trial step satisfies the condition before t falls
\* below t0, learning_rate raises nothing and returns the floor value t0.
C4_ReturnsFloorValue ==
  (pc = "done" /\ ~SomeStepAccepted) =>
     /\ raised = "none"
     /\ Same(result, self.t0)

\* C4 as amended: in that case learning_rate raises nothing and returns the
\* first trial step b^k that is strictly below t0, a value smaller than t0
\* (and at least b*t0 when it is not the first trial step).
C4_ReturnsFirstStepBelowFloor ==
  (pc = "done" /\ ~SomeStepAccepted) =>
     /\ raised = "none"
     /\ Same(result, TrialStep(FloorIndex))
     /\ Less(result, self.t0)
     /\ FloorIndex > 0 =>
          ~Less(result, <<self.b[1] * self.t0[1], self.b[2] * self.t0[2]>>)

C4_Witness ==
  /\ pc = "done"
  /\ ~SomeStepAccepted
  /\ shrinks >= 2
  /\ Less(result, self.t0)

\* C8: for 0<b<1 and t0>0 every call of learning_rate returns, and its loop
\* multiplies t by b at most K times, K the smallest k with b^k < t0,
\* whether or not the sufficient-decrease condition is ever met.
C8_ShrinkLoopBounded ==
  /\ [](shrinks <= FloorIndex)
  /\ <>(pc = "done")

\* a call that used all K multiplications
C8_Witness ==
  /\ pc = "done"
  /\ shrinks = FloorIndex
  /\ FloorIndex >= 3

-----------------------------------------------------------------------------
(* yannopt/learning_rates.py : AdaptiveGradient                             *)
(*                                                                         *)
(* self.weights is a numerator over the denominator 10 (the default        *)
(* smoothing is 0.1); directions are integers.  A returned step            *)
(* multiplier / np.sqrt(weights) is kept as the pair of its multiplier and *)
(* of the array under the root, and two steps are compared by comparing    *)
(* their squares.                                                          *)

\* AdaptiveGradient.__init__ : weights starts as the scalar smoothing
AdaptiveGradient(multiplier, smoothing) ==
  [weights |-> Scalar(smoothing), multiplier |-> multiplier]

Square(d) == [shape |-> d.shape, data |-> [i \in 1..Len(d.data) |-> d.data[i] * d.data[i]]]

\* an accumulation that starts again from the squared direction
AccumulateReset(weights, direction) == Scale(10, Square(direction))

\* an accumulation of the direction instead of its square
AccumulateUnsquared(weights, direction) == Add(weights, Scale(10, direction))

\* line 48: self.weights += direction ** 2
Accumulate(weights, direction) == Add(weights, Scale(10, Square(direction)))

\* line 49: self.multiplier / np.sqrt(self.weights)
StepOf(s) == [multiplier |-> s.multiplier, radicand |-> s.weights]

\* number of learning_rate calls on the one instance
MaxCalls == 3

\* the coordinates of the directions
DirectionEntries == {-2, 0, 1}
Directions(n) == {Vec(d) : d \in [1..n -> DirectionEntries]}

InitAdaGrad ==
  /\ pc = "ready"
  /\ \E m \in {1, 2}, s \in {1, 10}, n \in Dims :
       /\ self = AdaptiveGradient(m, s)
       /\ args = [multiplier |-> m, smoothing |-> s, n |-> n]
  /\ history = <<>>
  /\ result = StepOf(self)
  /\ x = Unused /\ f = Unused /\ raised = "none"
  /\ t = Unused /\ shrinks = Unused /\ locals = Unused

\* AdaptiveGradient.learning_rate(x, direction)
AGLearningRate ==
  /\ pc = "ready"
  /\ Len(history) < MaxCalls
  /\ \E direction \in Directions(args.n) :
       LET after == [self EXCEPT !.weights = Accumulate(self.weights, direction)]
       IN /\ self' = after
          /\ result' = StepOf(after)
          /\ history' = Append(history, [direction |-> direction,
                                         step |-> StepOf(after)])
  /\ UNCHANGED <<pc, f, x, raised, args, t, shrinks, locals>>

NextAdaGrad == AGLearningRate

SpecAdaGrad == InitAdaGrad /\ [][NextAdaGrad]_vars

\* m1/sqrt(w1) < m2/sqrt(w2) for positive multipliers and radicands
StepLess(m1, w1, m2, w2) == m1 * m1 * w2 < m2 * m2 * w1

\* coordinates where the second of two successive steps is not strictly smaller
NotSmaller(i) ==
  {c \in 1..args.n :
     ~StepLess(history[i + 1].step.multiplier, history[i + 1].step.radicand.data[c],
               history[i].step.multiplier, history[i].step.radicand.data[c])}

\* C5 as stated: of two successive calls with the same direction vector, any
\* direction vector, the second returns a strictly smaller step than the
\* first in every coordinate.
C5_SecondStepSmallerEverywhere ==
  \A i \in 1..(Len(history) - 1) :
     history[i].direction = history[i + 1].direction => NotSmaller(i) = {}

\* C5 as amended: the second step is strictly smaller in every coordinate
\* where the direction is not zero, and equal to the first step in every
\* coordinate where the direction is zero.
C5_SecondStepSmallerWhereNonzero ==
  \A i \in 1..(Len(history) - 1) :
     history[i].direction = history[i + 1].direction =>
       /\ NotSmaller(i) = {c \in 1..args.n : history[i].direction.data[c] = 0}
       /\ \A c \in NotSmaller(i) :
            /\ history[i + 1].step.multiplier = history[i].step.multiplier
            /\ history[i + 1].step.radicand.data[c] = history[i].step.radicand.data[c]

C5_Witness ==
  /\ Len(history) >= 2
  /\ history[1].direction = history[2].direction
  /\ history[1].direction = Vec(<<-2, 0>>)

\* smoothing + d1^2 + ... + dk^2 in coordinate c, over the denominator 10
SumOfSquares(k, c) ==
  args.smoothing
    + SumSeq([j \in 1..k |-> 10 * history[j].direction.data[c] * history[j].direction.data[c]])

\* C9: after the calls with directions d1..dn the accumulator is
\* smoothing + d1^2 + ... + dn^2 elementwise; each call has added its
\* direction^2 before it computes the step it returns, and no call resets or
\* decreases a coordinate.
C9_AccumulatorIsSumOfSquares ==
  /\ Len(history) = 0 => self.weights = Scalar(args.smoothing)
  /\ Len(history) > 0 =>
       self.weights = Vec([c \in 1..args.n |-> SumOfSquares(Len(history), c)])
  /\ \A k \in 1..Len(history) :
       /\ history[k].step.radicand = Vec([c \in 1..args.n |-> SumOfSquares(k, c)])
       /\ k > 1 => \A c \in 1..args.n :
            history[k].step.radicand.data[c] >= history[k - 1].step.radicand.data[c]

C9_Witness ==
  /\ Len(history) = 3
  /\ history[1].direction # history[2].direction
  /\ history[3].direction = Vec(<<1, -2>>)
  /\ self.weights.data[2] > self.weights.data[1]

-----------------------------------------------------------------------------
(* Specification SpecProx : one call L1Norm().prox(x, eta)                  *)
(* x and eta are numerators over 2 (the operator is positively             *)
(* homogeneous: prox(x/2, eta/2) = prox(x, eta)/2).                        *)

\* coordinates of x range over -MaxProxEntry..MaxProxEntry halves
MaxProxEntry == 6
\* eta ranges over 1..MaxEta halves
MaxEta == 3

InitProx ==
  /\ pc = "start"
  /\ \E n \in {1, 3} : x \in {Vec(v) : v \in [1..n -> -MaxProxEntry..MaxProxEntry]}
  /\ args \in {[eta |-> e] : e \in 1..MaxEta}
  /\ result = Scalar(0)
  /\ f = L1Norm
  /\ raised = "none"
  /\ self = Unused /\ t = Unused /\ shrinks = Unused
  /\ locals = Unused /\ history = Unused

CallProx ==
  /\ pc = "start"
  /\ result' = L1NormProx(x, args.eta)
  /\ pc' = "done"
  /\ UNCHANGED <<f, x, raised, self, args, t, shrinks, locals, history>>

NextProx == CallProx

SpecProx == InitProx /\ [][NextProx]_vars

\* C7: for every x and eta > 0, L1Norm.prox(x, eta) is the soft threshold:
\* coordinate i of the result is sign(x_i) * max(|x_i| - eta, 0).
C7_ProxIsSoftThreshold ==
  pc = "done" =>
     /\ result.shape = x.shape
     /\ \A i \in 1..Len(x.data) :
          result.data[i] =
            (IF x.data[i] > 0 THEN 1 ELSE IF x.data[i] < 0 THEN -1 ELSE 0)
            * (IF Abs(x.data[i]) > args.eta THEN Abs(x.data[i]) - args.eta ELSE 0)

\* x = [3, -3, 0.5], eta = 1 gives [2, -2, 0]
C7_Witness ==
  /\ pc = "done"
  /\ x = Vec(<<6, -6, 1>>)
  /\ args.eta = 2
  /\ result = Vec(<<4, -4, 0>>)

-----------------------------------------------------------------------------
(* yannopt/functions.py : HingeLoss, and specification SpecHinge : one     *)
(* evaluation of HingeLoss(X, y).eval(w) and .gradient(w).  Values are      *)
(* integers here (the class multiplies by no fraction).                    *)

\* lines 81-82 and 88-89: y = 2*y - 1; np.maximum(0, 1 - y * X.dot(x))
HingeLossLosses(h, w) ==
  LET y == Add(Scale(2, h.y), Scalar(-1))
      Xw == Dot(h.X, w)
  IN Vec([i \in 1..Len(y.data) |-> Max(0, 1 - y.data[i] * Xw.data[i])])

\* HingeLoss.eval
HingeLossEval(h, w) == Scalar(SumSeq(HingeLossLosses(h, w).data))

\* HingeLoss.gradient : np.sum(((losses > 0) * y)[:, np.newaxis] * X, axis=0)
HingeLossGradient(h, w) ==
  LET y == Add(Scale(2, h.y), Scalar(-1))
      losses == HingeLossLosses(h, w)
      mask == [i \in 1..Len(y.data) |->
                 (IF losses.data[i] > 0 THEN 1 ELSE 0) * y.data[i]]
  IN Vec([j \in 1..h.X.shape[2] |->
            SumSeq([i \in 1..h.X.shape[1] |-> mask[i] * At(h.X, i, j)])])

SignedMatrices(m, n) == {Mat(m, n, d) : d \in [1..(m * n) -> Entries]}

InitHinge ==
  /\ pc = "start"
  /\ \E samples \in Dims, features \in Dims :
       /\ \E X \in SignedMatrices(samples, features),
             y \in {Vec(l) : l \in [1..samples -> {0, 1}]} :
            f = HingeLoss(X, y)
       /\ x \in Vectors(features)
  /\ result = [value |-> Scalar(0), gradient |-> Scalar(0)]
  /\ raised = "none"
  /\ self = Unused /\ args = Unused /\ t = Unused /\ shrinks = Unused
  /\ locals = Unused /\ history = Unused

CallHinge ==
  /\ pc = "start"
  /\ result' = [value |-> HingeLossEval(f, x), gradient |-> HingeLossGradient(f, x)]
  /\ pc' = "done"
  /\ UNCHANGED <<f, x, raised, self, args, t, shrinks, locals, history>>

NextHinge == CallHinge

SpecHinge == InitHinge /\ [][NextHinge]_vars

\* the label of sample i in {-1, +1}, and its margin term 1 - y_i x_i'w
Label(i) == 2 * f.y.data[i] - 1
Margin(i) ==
  1 - Label(i) * SumSeq([j \in 1..f.X.shape[2] |-> At(f.X, i, j) * x.data[j]])

\* C10: HingeLoss.gradient(w) is the sum over the samples i with
\* 1 - y_i x_i'w > 0 of -1 * y_i * x_i, the (sub)gradient of
\* HingeLoss.eval(w) = sum_i max(0, 1 - y_i x_i'w).
C10_HingeGradientIsSubgradient ==
  pc = "done" =>
     /\ result.value =
          Scalar(SumSeq([i \in 1..f.X.shape[1] |-> Max(0, Margin(i))]))
     /\ result.gradient =
          Vec([j \in 1..f.X.shape[2] |->
                 SumSeq([i \in 1..f.X.shape[1] |->
                           IF Margin(i) > 0 THEN -1 * Label(i) * At(f.X, i, j)
                           ELSE 0])])

====
